---------------------------- MODULE Spec2Model ----------------------------
(***************************************************************************)
(* Model of fetch-cloudinary-images.js (the video-aware variant, source    *)
(* lines 200-437): one run of fetchAllImages against a remote provider,    *)
(* the classifier convertToBrowserFormat, the album assembly (cover        *)
(* selection, formatFolderName, the localeCompare sort) and the write of   *)
(* images.json.                                                            *)
(*                                                                         *)
(* Strings the code only passes around or compares whole are TLA+ strings. *)
(* A folder name is a sequence of one-character strings, because           *)
(* formatFolderName and localeCompare look at its characters.  A URL is a  *)
(* sequence of pieces, each delivery-path segment ("/image/upload/",       *)
(* "/video/upload/", ...) being one piece, so that String.includes and     *)
(* String.replace on those segments are a search and a splice in the       *)
(* sequence.  A JavaScript object is a record; a property that is missing  *)
(* (undefined) is a field that is not in the record's DOMAIN.              *)
(***************************************************************************)
EXTENDS Integers, Sequences, FiniteSets, TLC

VARIABLES
    pc,             \* position of fetchAllImages: "start", "listing", "searching", "exited"
    folders,        \* const folders (line 306): sequence of [name |-> folder name]
    folderIdx,      \* position of the for..of loop over folders; Len(folders)+1 = unfiled bucket
    folderImages,   \* let folderImages (line 317)
    nextCursor,     \* let nextCursor (lines 318, 346)
    albumsByFolder, \* const albumsByFolder (line 310): insertion-ordered <<key, images>> pairs
    allImages,      \* const allImages (line 311)
    rootImages,     \* const rootImages (line 345)
    requests,       \* every remote call issued so far, in order
    responses,      \* every answer received so far, in order
    imagesJson,     \* the file images.json
    writeCount,     \* number of fs.writeFileSync calls of this run
    exitCode,       \* exit status of the process once pc = "exited"
    resource,       \* argument of a single convertToBrowserFormat call
    converted,      \* its outcome
    cstate          \* "idle", "called", "returned" or "threw"

vars == <<pc, folders, folderIdx, folderImages, nextCursor, albumsByFolder,
          allImages, rootImages, requests, responses, imagesJson, writeCount,
          exitCode, resource, converted, cstate>>

runVars == <<pc, folders, folderIdx, folderImages, nextCursor, albumsByFolder,
             allImages, rootImages, requests, responses, imagesJson, writeCount,
             exitCode>>

classifyVars == <<resource, converted, cstate>>

-----------------------------------------------------------------------------
(* Bounds of the model *)

\* most root folders the provider lists
MaxFolders == 2

\* most search requests of one run (every bucket needs at least one)
MaxRequests == 4

-----------------------------------------------------------------------------
(* JavaScript values *)

Has(obj, key) == key \in DOMAIN obj

\* the exception a method call on undefined raises
TypeError == [threw |-> "TypeError"]

Threw(r) == Has(r, "threw")

\* String.prototype.includes, for a delivery-path segment
Includes(url, seg) == \E i \in 1..Len(url) : url[i] = seg

\* String.prototype.replace with a string pattern: the first occurrence only
Replace(url, seg, rep) ==
    IF ~Includes(url, seg) THEN url
    ELSE LET i == CHOOSE j \in 1..Len(url) :
                     /\ url[j] = seg
                     /\ \A k \in 1..(j-1) : url[k] # seg
         IN SubSeq(url, 1, i-1) \o rep \o SubSeq(url, i+1, Len(url))

ImageUpload == "/image/upload/"
VideoUpload == "/video/upload/"

\* '/video/upload/so_0,f_jpg,q_auto/'
PosterDirective == "so_0,f_jpg,q_auto/"

\* '/image/upload/f_auto,q_auto/'
AutoDirective == "f_auto,q_auto/"

-----------------------------------------------------------------------------
(* The classifier *)

isHEICVideo(r) ==
    /\ Has(r, "format") /\ r.format = "heic"
    /\ Has(r, "resource_type") /\ r.resource_type = "video"

\* convertToBrowserFormat without its branch for ordinary videos: a video
\* record is treated by the rules for images
convertToBrowserFormatNoVideoBranch(r) ==
    IF isHEICVideo(r)
    THEN IF Has(r, "secure_url")
         THEN [url |-> r.secure_url, originalUrl |-> r.secure_url,
               isVideo |-> TRUE, isHEICLivePhoto |-> TRUE]
         ELSE [isVideo |-> TRUE, isHEICLivePhoto |-> TRUE]
    ELSE IF ~Has(r, "secure_url") THEN TypeError
    ELSE IF Includes(r.secure_url, ImageUpload)
    THEN [url |-> Replace(r.secure_url, ImageUpload, <<ImageUpload, AutoDirective>>),
          originalUrl |-> r.secure_url, isVideo |-> FALSE]
    ELSE [url |-> r.secure_url, originalUrl |-> r.secure_url, isVideo |-> FALSE]

\* convertToBrowserFormat(resource).  url is resource.secure_url; when that is
\* undefined, the HEIC-video branch returns an object whose url and
\* originalUrl are undefined, and every other branch calls url.replace or
\* url.includes and so throws a TypeError.
convertToBrowserFormat(r) ==
    IF isHEICVideo(r)
    THEN IF Has(r, "secure_url")
         THEN [url |-> r.secure_url, originalUrl |-> r.secure_url,
               isVideo |-> TRUE, isHEICLivePhoto |-> TRUE]
         ELSE [isVideo |-> TRUE, isHEICLivePhoto |-> TRUE]
    ELSE IF Has(r, "resource_type") /\ r.resource_type = "video"
    THEN IF Has(r, "secure_url")
         THEN [url |-> Replace(r.secure_url, VideoUpload, <<VideoUpload, PosterDirective>>),
               originalUrl |-> r.secure_url, isVideo |-> TRUE]
         ELSE TypeError
    ELSE IF Has(r, "format") /\ r.format \in {"heic", "heif"}
    THEN IF Has(r, "secure_url")
         THEN [url |-> Replace(r.secure_url, ImageUpload, <<ImageUpload, AutoDirective>>),
               originalUrl |-> r.secure_url, isVideo |-> FALSE]
         ELSE TypeError
    ELSE IF ~Has(r, "secure_url") THEN TypeError
    ELSE IF Includes(r.secure_url, ImageUpload)
    THEN [url |-> Replace(r.secure_url, ImageUpload, <<ImageUpload, AutoDirective>>),
          originalUrl |-> r.secure_url, isVideo |-> FALSE]
    ELSE [url |-> r.secure_url, originalUrl |-> r.secure_url, isVideo |-> FALSE]

-----------------------------------------------------------------------------
(* Characters and strings of folder names and titles *)

Digits == <<"0", "1", "2", "3", "4", "5", "6", "7", "8", "9">>

Upper == <<"A", "B", "C", "D", "E", "F", "G", "H", "I", "J", "K", "L", "M",
           "N", "O", "P", "Q", "R", "S", "T", "U", "V", "W", "X", "Y", "Z">>

Lower == <<"a", "b", "c", "d", "e", "f", "g", "h", "i", "j", "k", "l", "m",
           "n", "o", "p", "q", "r", "s", "t", "u", "v", "w", "x", "y", "z">>

IndexIn(seq, c) == CHOOSE i \in 1..Len(seq) : seq[i] = c

IsDigit(c) == \E i \in 1..Len(Digits) : Digits[i] = c
IsUpper(c) == \E i \in 1..Len(Upper) : Upper[i] = c
IsLower(c) == \E i \in 1..Len(Lower) : Lower[i] = c

\* UTF-16 code unit of a character of the alphabet
CodeUnit(c) ==
    IF c = " " THEN 32
    ELSE IF c = "," THEN 44
    ELSE IF c = "-" THEN 45
    ELSE IF c = "_" THEN 95
    ELSE IF IsDigit(c) THEN 47 + IndexIn(Digits, c)
    ELSE IF IsUpper(c) THEN 64 + IndexIn(Upper, c)
    ELSE 96 + IndexIn(Lower, c)

\* String.prototype.toUpperCase on one character
ToUpperCase(c) == IF IsLower(c) THEN Upper[IndexIn(Lower, c)] ELSE c

\* the separators of split(/[-_]/)
IsSeparator(c) == c \in {"-", "_"}

\* folderName.split(/[-_]/): the words between separators, empty words kept
RECURSIVE Split(_)
Split(s) ==
    IF \A i \in 1..Len(s) : ~IsSeparator(s[i]) THEN <<s>>
    ELSE LET i == CHOOSE j \in 1..Len(s) :
                     /\ IsSeparator(s[j])
                     /\ \A k \in 1..(j-1) : ~IsSeparator(s[k])
         IN <<SubSeq(s, 1, i-1)>> \o Split(SubSeq(s, i+1, Len(s)))

\* word.charAt(0).toUpperCase() + word.slice(1)
Capitalize(word) ==
    IF word = <<>> THEN <<>> ELSE <<ToUpperCase(word[1])>> \o Tail(word)

\* words.join(' ')
RECURSIVE Join(_)
Join(words) ==
    IF Len(words) = 1 THEN words[1]
    ELSE words[1] \o <<" ">> \o Join(Tail(words))

formatFolderName(folderName) ==
    LET words == Split(folderName)
    IN Join([i \in 1..Len(words) |-> Capitalize(words[i])])

\* Comparison of two strings by code units: -1, 0 or 1
RECURSIVE OrdinalCompare(_, _)
OrdinalCompare(a, b) ==
    IF a = <<>> /\ b = <<>> THEN 0
    ELSE IF a = <<>> THEN -1
    ELSE IF b = <<>> THEN 1
    ELSE IF CodeUnit(a[1]) < CodeUnit(b[1]) THEN -1
    ELSE IF CodeUnit(a[1]) > CodeUnit(b[1]) THEN 1
    ELSE OrdinalCompare(Tail(a), Tail(b))

\* Primary collation weight of a character: white space, then punctuation
\* (_ - ,), then digits, then letters, a letter's case making no difference
PrimaryWeight(c) ==
    IF c = " " THEN 1
    ELSE IF c = "_" THEN 2
    ELSE IF c = "-" THEN 3
    ELSE IF c = "," THEN 4
    ELSE IF IsDigit(c) THEN 10 + IndexIn(Digits, c)
    ELSE IF IsUpper(c) THEN 30 + IndexIn(Upper, c)
    ELSE 30 + IndexIn(Lower, c)

\* Tertiary weight: a lower-case letter sorts before its upper-case letter
TertiaryWeight(c) == IF IsUpper(c) THEN 1 ELSE 0

\* the strings compared by primary weights, a proper prefix being smaller
RECURSIVE ComparePrimary(_, _)
ComparePrimary(a, b) ==
    IF a = <<>> /\ b = <<>> THEN 0
    ELSE IF a = <<>> THEN -1
    ELSE IF b = <<>> THEN 1
    ELSE IF PrimaryWeight(a[1]) < PrimaryWeight(b[1]) THEN -1
    ELSE IF PrimaryWeight(a[1]) > PrimaryWeight(b[1]) THEN 1
    ELSE ComparePrimary(Tail(a), Tail(b))

\* strings of equal primary weights compared by the case of their letters
RECURSIVE CompareTertiary(_, _)
CompareTertiary(a, b) ==
    IF a = <<>> \/ b = <<>> THEN 0
    ELSE IF TertiaryWeight(a[1]) < TertiaryWeight(b[1]) THEN -1
    ELSE IF TertiaryWeight(a[1]) > TertiaryWeight(b[1]) THEN 1
    ELSE CompareTertiary(Tail(a), Tail(b))

\* a.localeCompare(b) under the default collation: the strings are compared
\* by primary weights first, and by case only when those are all equal
LocaleCompare(a, b) ==
    IF ComparePrimary(a, b) # 0 THEN ComparePrimary(a, b) ELSE CompareTertiary(a, b)

-----------------------------------------------------------------------------
(* Album assembly *)

\* const albumCovers: <<folder name, cover index>>
albumCovers ==
    << <<<<"2", "0", "2", "0", ",", " ", "S", "O", "L", " ", "N", "o", "v", "e", "m", "b", "e", "r">>, 1>>,
       <<<<"2", "0", "2", "1", ",", " ", "S", "O", "L", " ", "A", "p", "r", "i", "l">>, 5>>,
       <<<<"2", "0", "2", "1", ",", " ", "S", "O", "L", " ", "N", "o", "v", "e", "m", "b", "e", "r">>, 2>>,
       <<<<"2", "0", "2", "2", ",", " ", "S", "O", "L", " ", "A", "p", "r", "i", "l">>, 2>>,
       <<<<"2", "0", "2", "2", ",", " ", "S", "O", "L", " ", "N", "o", "v", "e", "m", "b", "e", "r">>, 0>>,
       <<<<"2", "0", "2", "3", ",", " ", "S", "O", "L", " ", "A", "p", "r", "i", "l">>, 1>>,
       <<<<"2", "0", "2", "3", ",", " ", "S", "O", "L", " ", "O", "c", "t", "o", "b", "e", "r">>, 4>>,
       <<<<"2", "0", "2", "4", ",", " ", "S", "O", "L", " ", "A", "p", "r", "i", "l">>, 6>>,
       <<<<"2", "0", "2", "4", ",", " ", "S", "O", "L", " ", "O", "c", "t", "o", "b", "e", "r">>, 1>>,
       <<<<"2", "0", "2", "5", ",", " ", "S", "O", "L", " ", "A", "p", "r", "i", "l">>, 11>>,
       <<<<"2", "0", "2", "5", ",", " ", "S", "O", "L", " ", "N", "o", "v", "e", "m", "b", "e", "r">>, 35>> >>

\* folderName is a key of albumCovers
HasCover(folderName) == \E i \in 1..Len(albumCovers) : albumCovers[i][1] = folderName

\* the override taken as a position counted from 1
coverIndexOneBased(folderName) ==
    IF HasCover(folderName)
    THEN albumCovers[CHOOSE i \in 1..Len(albumCovers) : albumCovers[i][1] = folderName][2] - 1
    ELSE 0

\* albumCovers[folderName] || 0
coverIndex(folderName) ==
    IF HasCover(folderName)
    THEN albumCovers[CHOOSE i \in 1..Len(albumCovers) : albumCovers[i][1] = folderName][2]
    ELSE 0

\* images[coverIndex] || images[0]; every item is an object, hence truthy.
\* JavaScript indexes from 0, the sequences of the model from 1.
coverImage(folderName, images) ==
    IF coverIndex(folderName) + 1 \in 1..Len(images)
    THEN images[coverIndex(folderName) + 1]
    ELSE images[1]

\* one entry of Object.entries(albumsByFolder).map(...)
Album(entry) ==
    [title |-> formatFolderName(entry[1]),
     folder |-> entry[1],
     coverImage |-> coverImage(entry[1], entry[2]),
     images |-> entry[2]]

\* the comparator with its operands swapped: a.title.localeCompare(b.title)
compareFnAscending(a, b) == LocaleCompare(a.title, b.title)

\* (a, b) => b.title.localeCompare(a.title)
compareFn(a, b) == LocaleCompare(b.title, a.title)

\* Array.prototype.sort is stable: x goes before the first element that the
\* comparator puts strictly after it
Insert(sorted, x) ==
    LET later == {i \in 1..Len(sorted) : compareFn(sorted[i], x) > 0}
        at    == IF later = {} THEN Len(sorted) + 1
                 ELSE CHOOSE i \in later : \A j \in later : i <= j
    IN SubSeq(sorted, 1, at - 1) \o <<x>> \o SubSeq(sorted, at, Len(sorted))

RECURSIVE Sort(_)
Sort(albums) ==
    IF albums = <<>> THEN <<>>
    ELSE Insert(Sort(SubSeq(albums, 1, Len(albums) - 1)), albums[Len(albums)])


-----------------------------------------------------------------------------
(* The remote provider: what a run can be given *)

\* the values a cursor variable can hold besides a cursor token
Null == [null |-> TRUE]
Undefined == [undefined |-> TRUE]

\* the cursor the provider hands out with its k-th answer
Cursor(k) == [token |-> k]

\* JavaScript truthiness of a cursor value: while (nextCursor)
Truthy(v) == v \notin {Null, Undefined}

Host == "https://res.cloudinary.com/ddnebrkpu"

\* asset records of the run: a still image, a video, and a record without
\* secure_url
ImageAsset == [secure_url |-> <<Host, ImageUpload, "v1/a.jpg">>,
               resource_type |-> "image", format |-> "jpg"]
VideoAsset == [secure_url |-> <<Host, VideoUpload, "v1/b.mp4">>,
               resource_type |-> "video", format |-> "mp4"]
NoUrlAsset == [resource_type |-> "image", format |-> "jpg"]

\* the resources arrays the provider answers a search with
SamplePages ==
    { <<>>,
      <<ImageAsset>>,
      <<VideoAsset, ImageAsset, VideoAsset>>,
      <<ImageAsset, NoUrlAsset>> }

\* root folders the provider can list
FolderNames ==
    { <<"2", "0", "2", "0", ",", " ", "S", "O", "L", " ", "N", "o", "v", "e", "m", "b", "e", "r">>,
      <<"2", "0", "2", "1", ",", " ", "S", "O", "L", " ", "A", "p", "r", "i", "l">>,
      <<"2", "0", "2", "1", ",", "_", "s", "o", "l", "-", "a", "p", "r", "i", "l">> }

\* sequences of pairwise different elements of S, of length n
RECURSIVE Arrangements(_, _)
Arrangements(S, n) ==
    IF n = 0 THEN {<<>>}
    ELSE UNION { { Append(a, x) : x \in S \ {a[i] : i \in 1..Len(a)} }
                 : a \in Arrangements(S, n - 1) }

\* the answers of cloudinary.api.root_folders(): a folders array, or none
ListingResults ==
    { [folders |-> [i \in 1..Len(a) |-> [name |-> a[i]]]] :
        a \in UNION { Arrangements(FolderNames, n) :
                        n \in 0..(IF MaxFolders < MaxRequests THEN MaxFolders
                                  ELSE MaxRequests - 1) } }
    \cup { [total_count |-> 0] }

\* the answers of a search: a resources array or none, a next_cursor or none
SearchResults(more, k) ==
    { IF more THEN [resources |-> p, next_cursor |-> Cursor(k)] ELSE [resources |-> p] :
        p \in SamplePages }
    \cup { IF more THEN [next_cursor |-> Cursor(k)] ELSE [total_count |-> 0] }

-----------------------------------------------------------------------------
(* fetchAllImages *)

\* the folders taken from the end of the listing
BucketNameReversed(fs, idx) ==
    IF idx <= Len(fs) THEN fs[Len(fs) + 1 - idx].name ELSE <<>>

\* the name of the bucket the loop is at: a listed folder, or '' for the
\* assets in no folder
BucketName(fs, idx) == IF idx <= Len(fs) THEN fs[idx].name ELSE <<>>

\* the search built without .next_cursor(nextCursor)
SearchRequestNoCursor(name, cursor) ==
    [call |-> "search", asset_folder |-> name, sort_by |-> <<"created_at", "desc">>,
     max_results |-> 500, next_cursor |-> Null]

\* cloudinary.search.expression(`asset_folder="..."`).sort_by('created_at',
\* 'desc').max_results(500)...next_cursor(cursor).execute()
SearchRequest(name, cursor) ==
    [call |-> "search", asset_folder |-> name, sort_by |-> <<"created_at", "desc">>,
     max_results |-> 500, next_cursor |-> cursor]

\* result.resources || []
Resources(result) == IF Has(result, "resources") THEN result.resources ELSE <<>>

\* result.next_cursor
NextCursorOf(result) == IF Has(result, "next_cursor") THEN result.next_cursor ELSE Undefined

\* resources.map(r => convertToBrowserFormat(r)) throws
MapThrows(rs) == \E i \in 1..Len(rs) : Threw(convertToBrowserFormat(rs[i]))

\* resources.map(r => convertToBrowserFormat(r))
MapConvert(rs) == [i \in 1..Len(rs) |-> convertToBrowserFormat(rs[i])]

\* a push that skips the items the array already holds
RECURSIVE PushUnique(_, _)
PushUnique(arr, items) ==
    IF items = <<>> THEN arr
    ELSE PushUnique(IF \E i \in 1..Len(arr) : arr[i] = Head(items)
                    THEN arr ELSE Append(arr, Head(items)),
                    Tail(items))

\* arr.push(...items)
Push(arr, items) == arr \o items

\* the guard off by one: if (folderImages.length > 1)
SetAlbumOffByOne(byFolder, name, images) ==
    IF Len(images) > 1 THEN Append(byFolder, <<name, images>>) ELSE byFolder

\* if (folderImages.length > 0) albumsByFolder[folder.name] = folderImages
SetAlbum(byFolder, name, images) ==
    IF Len(images) > 0
    THEN IF \E i \in 1..Len(byFolder) : byFolder[i][1] = name
         THEN [i \in 1..Len(byFolder) |->
                  IF byFolder[i][1] = name THEN <<name, images>> ELSE byFolder[i]]
         ELSE Append(byFolder, <<name, images>>)
    ELSE byFolder

\* Object.entries(albumsByFolder).map(...) and albums.sort(...)
Albums(byFolder) == Sort([i \in 1..Len(byFolder) |-> Album(byFolder[i])])

\* the number of images of all albums together
RECURSIVE SumImages(_)
SumImages(albums) ==
    IF albums = <<>> THEN 0
    ELSE Len(albums[1].images) + SumImages(Tail(albums))

\* totalImages counted from the albums only
OutputCountsAlbums(all, byFolder) ==
    [cloudName |-> "ddnebrkpu",
     lastUpdated |-> "now",
     totalImages |-> SumImages(Albums(byFolder)),
     carouselImages |-> all,
     albums |-> Albums(byFolder)]

\* const output
Output(all, byFolder) ==
    [cloudName |-> "ddnebrkpu",
     lastUpdated |-> "now",
     totalImages |-> Len(all),
     carouselImages |-> all,
     albums |-> Albums(byFolder)]

\* an images.json a former run left behind
PriorArtifact ==
    [cloudName |-> "ddnebrkpu",
     lastUpdated |-> "earlier",
     totalImages |-> 0,
     carouselImages |-> <<>>,
     albums |-> <<>>]

\* the provider has room for one more page of the current bucket
CanPaginate ==
    (Len(requests) - 1) + (Len(folders) + 1 - folderIdx) < MaxRequests

Init ==
    /\ pc = "start"
    /\ folders = <<>>
    /\ folderIdx = 1
    /\ folderImages = <<>>
    /\ nextCursor = Null
    /\ albumsByFolder = <<>>
    /\ allImages = <<>>
    /\ rootImages = <<>>
    /\ requests = <<>>
    /\ responses = <<>>
    /\ imagesJson \in {[exists |-> FALSE], [exists |-> TRUE, content |-> PriorArtifact]}
    /\ writeCount = 0
    /\ exitCode = 0
    /\ resource = ImageAsset
    /\ converted = Undefined
    /\ cstate = "idle"

\* a catch block that saves what was fetched so far before it exits
CatchWritesPartial ==
    /\ pc' = "exited"
    /\ exitCode' = 1
    /\ imagesJson' = [exists |-> TRUE, content |-> Output(allImages, albumsByFolder)]
    /\ writeCount' = writeCount + 1

\* the catch block: process.exit(1)
Catch ==
    /\ pc' = "exited"
    /\ exitCode' = 1
    /\ UNCHANGED <<imagesJson, writeCount>>

\* fs.writeFileSync('images.json', JSON.stringify(output, null, 2)), the end
\* of the try block and of the process
WriteOutput(all, byFolder) ==
    /\ imagesJson' = [exists |-> TRUE, content |-> Output(all, byFolder)]
    /\ writeCount' = writeCount + 1
    /\ pc' = "exited"
    /\ exitCode' = 0

\* await cloudinary.api.root_folders(): the call is issued
ListFolders ==
    /\ pc = "start"
    /\ requests' = Append(requests, [call |-> "root_folders"])
    /\ pc' = "listing"
    /\ UNCHANGED <<folders, folderIdx, folderImages, nextCursor, albumsByFolder,
                   allImages, rootImages, responses, imagesJson, writeCount, exitCode>>
    /\ UNCHANGED classifyVars

\* root_folders() resolves: folders is set, the loop over the folders starts
\* (or, with no folder, the unfiled bucket) and its first search is issued
ListFoldersOk ==
    /\ pc = "listing"
    /\ \E result \in ListingResults :
         LET fs == IF Has(result, "folders") THEN result.folders ELSE <<>>
         IN /\ responses' = Append(responses, [ok |-> TRUE, result |-> result])
            /\ folders' = fs
            /\ folderIdx' = 1
            /\ folderImages' = <<>>
            /\ nextCursor' = Null
            /\ requests' = Append(requests, SearchRequest(BucketName(fs, 1), Null))
    /\ pc' = "searching"
    /\ UNCHANGED <<albumsByFolder, allImages, rootImages, imagesJson, writeCount, exitCode>>
    /\ UNCHANGED classifyVars

\* root_folders() rejects
ListFoldersFail ==
    /\ pc = "listing"
    /\ responses' = Append(responses, [ok |-> FALSE])
    /\ Catch
    /\ UNCHANGED <<folders, folderIdx, folderImages, nextCursor, albumsByFolder,
                   allImages, rootImages, requests>>
    /\ UNCHANGED classifyVars

\* a search of a folder resolves: one turn of the folder's do/while, and when
\* it was the last page the end of the for..of body and the next search
FolderPage(result) ==
    LET items  == MapConvert(Resources(result))
        cursor == NextCursorOf(result)
        name   == BucketName(folders, folderIdx)
    IN /\ allImages' = Push(allImages, items)
       /\ IF Truthy(cursor)
          THEN /\ folderImages' = Push(folderImages, items)
               /\ nextCursor' = cursor
               /\ requests' = Append(requests, SearchRequest(name, cursor))
               /\ UNCHANGED <<folderIdx, albumsByFolder>>
          ELSE /\ albumsByFolder' = SetAlbum(albumsByFolder, name, Push(folderImages, items))
               /\ folderIdx' = folderIdx + 1
               /\ folderImages' = <<>>
               /\ nextCursor' = Null
               /\ requests' = Append(requests,
                                     SearchRequest(BucketName(folders, folderIdx + 1), Null))
       /\ UNCHANGED <<pc, rootImages, imagesJson, writeCount, exitCode>>

\* a search of the unfiled bucket resolves: one turn of the second do/while,
\* and when it was the last page the assembly and the write of images.json
RootPage(result) ==
    LET items  == MapConvert(Resources(result))
        cursor == NextCursorOf(result)
    IN /\ rootImages' = Push(rootImages, items)
       /\ allImages' = Push(allImages, items)
       /\ IF Truthy(cursor)
          THEN /\ nextCursor' = cursor
               /\ requests' = Append(requests, SearchRequest(<<>>, cursor))
               /\ UNCHANGED <<pc, imagesJson, writeCount, exitCode>>
          ELSE /\ nextCursor' = cursor
               /\ WriteOutput(Push(allImages, items), albumsByFolder)
               /\ UNCHANGED requests
       /\ UNCHANGED <<folderIdx, folderImages, albumsByFolder>>

\* execute() resolves
SearchOk ==
    /\ pc = "searching"
    /\ \E more \in {b \in BOOLEAN : b => CanPaginate} :
       \E result \in SearchResults(more, Len(responses)) :
         /\ responses' = Append(responses, [ok |-> TRUE, result |-> result])
         /\ IF MapThrows(Resources(result))
            THEN /\ Catch
                 /\ UNCHANGED <<folderIdx, folderImages, nextCursor, albumsByFolder,
                                allImages, rootImages, requests>>
            ELSE IF folderIdx <= Len(folders)
                 THEN FolderPage(result)
                 ELSE RootPage(result)
    /\ UNCHANGED folders
    /\ UNCHANGED classifyVars

\* execute() rejects
SearchFail ==
    /\ pc = "searching"
    /\ responses' = Append(responses, [ok |-> FALSE])
    /\ Catch
    /\ UNCHANGED <<folders, folderIdx, folderImages, nextCursor, albumsByFolder,
                   allImages, rootImages, requests>>
    /\ UNCHANGED classifyVars

Next ==
    \/ ListFolders
    \/ ListFoldersOk
    \/ ListFoldersFail
    \/ SearchOk
    \/ SearchFail

Spec == Init /\ [][Next]_vars


-----------------------------------------------------------------------------
(* One call of the classifier on any asset record *)

SampleUrls ==
    { <<Host, ImageUpload, "v1/a.jpg">>,
      <<Host, VideoUpload, "v1/b.mp4">>,
      <<Host, "/video/authenticated/", "s--sig--/v1/c.mp4">>,
      <<Host, "/raw/upload/", "v1/d.bin">>,
      <<Host, ImageUpload, "v1/x", ImageUpload, "e.jpg">>,
      <<Host, VideoUpload, "v1/y", VideoUpload, "f.mov">> }

\* asset records with any of secure_url, resource_type, format missing
RawAssets ==
    UNION { { [k \in present |->
                 [secure_url |-> u, resource_type |-> t, format |-> f][k]] :
              u \in SampleUrls,
              t \in {"image", "video", "raw"},
              f \in {"heic", "heif", "jpg", "mp4"} } :
            present \in SUBSET {"secure_url", "resource_type", "format"} }

InitClassify ==
    /\ pc = "start"
    /\ folders = <<>>
    /\ folderIdx = 1
    /\ folderImages = <<>>
    /\ nextCursor = Null
    /\ albumsByFolder = <<>>
    /\ allImages = <<>>
    /\ rootImages = <<>>
    /\ requests = <<>>
    /\ responses = <<>>
    /\ imagesJson = [exists |-> FALSE]
    /\ writeCount = 0
    /\ exitCode = 0
    /\ resource \in RawAssets
    /\ converted = Undefined
    /\ cstate = "called"

\* convertToBrowserFormat(resource) returns or throws
Classify ==
    /\ cstate = "called"
    /\ converted' = convertToBrowserFormat(resource)
    /\ cstate' = IF Threw(convertToBrowserFormat(resource)) THEN "threw" ELSE "returned"
    /\ UNCHANGED resource
    /\ UNCHANGED runVars

NextClassify == Classify

SpecClassify == InitClassify /\ [][NextClassify]_vars


-----------------------------------------------------------------------------
(* Properties of the classifier *)

\* the call has ended, by a return or by an exception
Classified == cstate \in {"returned", "threw"}

\* the record is an ordinary video: resource kind video, format not heic
OrdinaryVideo(r) ==
    /\ Has(r, "resource_type") /\ r.resource_type = "video"
    /\ ~(Has(r, "format") /\ r.format = "heic")

\* the poster directive stands right after the first /video/upload/ segment
\* of url, the rest of url being the pieces of original in their order
PosterSpliced(url, original) ==
    \E i \in 1..Len(original) :
        /\ original[i] = VideoUpload
        /\ \A k \in 1..(i-1) : original[k] # VideoUpload
        /\ url = SubSeq(original, 1, i) \o <<PosterDirective>>
                   \o SubSeq(original, i+1, Len(original))

\* C7: convertToBrowserFormat returns an item for every asset record, also
\* for one whose secure_url, resource_type or format is missing: no call
\* ends with an exception.
C7_ClassifierNeverThrows == cstate # "threw"

\* C8 as stated: every ordinary video with a secure URL, whatever that URL
\* is, is converted to an item with isVideo = true, no live-photo mark,
\* originalUrl the raw URL, and a url that contains the poster directive.
C8_PosterForAnyUrl ==
    (Classified /\ OrdinaryVideo(resource) /\ Has(resource, "secure_url")) =>
        /\ cstate = "returned"
        /\ converted.isVideo = TRUE
        /\ ~Has(converted, "isHEICLivePhoto")
        /\ converted.originalUrl = resource.secure_url
        /\ Includes(converted.url, PosterDirective)

\* C8 amended: every ordinary video with a secure URL is converted to an
\* item with isVideo = true, no live-photo mark and originalUrl the raw URL;
\* its url has the poster directive spliced after the first /video/upload/
\* segment when the raw URL has that segment, and is the raw URL unchanged
\* when it has not.
C8_PosterWhenSegmentPresent ==
    (Classified /\ OrdinaryVideo(resource) /\ Has(resource, "secure_url")) =>
        /\ cstate = "returned"
        /\ converted.isVideo = TRUE
        /\ ~Has(converted, "isHEICLivePhoto")
        /\ converted.originalUrl = resource.secure_url
        /\ IF Includes(resource.secure_url, VideoUpload)
           THEN PosterSpliced(converted.url, resource.secure_url)
           ELSE converted.url = resource.secure_url

\* an ordinary video whose URL has the segment twice has been converted
C8_Witness ==
    /\ cstate = "returned"
    /\ OrdinaryVideo(resource)
    /\ Has(resource, "secure_url")
    /\ Cardinality({i \in 1..Len(resource.secure_url) :
                       resource.secure_url[i] = VideoUpload}) = 2
    /\ Includes(converted.url, PosterDirective)


-----------------------------------------------------------------------------
(* What a run was given and what it wrote, read off its requests and       *)
(* responses                                                               *)

\* images.json was written by this run
Written == writeCount > 0

\* the document this run wrote
Doc == imagesJson.content

\* the cursor value of the k-th response
CursorAt(k) == NextCursorOf(responses[k].result)

\* the records the provider returned for a bucket in responses 2..k, in
\* the order of the responses
RECURSIVE RawFetched(_, _)
RawFetched(name, k) ==
    IF k < 2 THEN <<>>
    ELSE RawFetched(name, k - 1)
           \o (IF requests[k].asset_folder = name
               THEN Resources(responses[k].result) ELSE <<>>)

\* all records returned for a bucket
Returned(name) == RawFetched(name, Len(responses))

\* the records of folders 1..i, folder after folder in listing order
RECURSIVE ReturnedUpTo(_)
ReturnedUpTo(i) ==
    IF i = 0 THEN <<>> ELSE ReturnedUpTo(i - 1) \o Returned(folders[i].name)

\* position of a bucket in the order of the run: the listed folders in
\* listing order, then the unfiled bucket
BucketPos(name) ==
    IF name = <<>> THEN Len(folders) + 1
    ELSE CHOOSE i \in 1..Len(folders) : folders[i].name = name

-----------------------------------------------------------------------------
(* Properties of a run *)

\* C1: when the folder listing or a search request fails, the run ends
\* there: the failed call is the last call, images.json is not written and
\* holds what it held before (or does not exist), and the exit status is 1.
\* images.json is written only when every call succeeded and every folder
\* and the unfiled bucket were fetched to their last page.
C1_AllOrNothing ==
    /\ \A k \in 1..Len(responses) :
         ~responses[k].ok =>
            /\ k = Len(responses)
            /\ Len(requests) = k
            /\ pc = "exited"
            /\ exitCode = 1
            /\ writeCount = 0
            /\ imagesJson.exists => imagesJson.content = PriorArtifact
    /\ Written =>
         /\ \A k \in 1..Len(responses) : responses[k].ok
         /\ Len(responses) = Len(requests)
         /\ \A i \in 1..(Len(folders) + 1) :
              \E k \in 2..Len(responses) :
                 /\ requests[k].asset_folder = BucketName(folders, i)
                 /\ ~Truthy(CursorAt(k))

\* the second page of a folder failed while a former images.json exists
C1_Witness ==
    /\ Len(responses) >= 3
    /\ ~responses[Len(responses)].ok
    /\ Truthy(requests[Len(requests)].next_cursor)
    /\ imagesJson = [exists |-> TRUE, content |-> PriorArtifact]
    /\ exitCode = 1

\* C2: the first search of a bucket carries no cursor; every later search
\* of it carries the cursor of the response before it; a response with a
\* cursor is followed by one more search of the same bucket (unless the run
\* ended while handling that response), and a response without a cursor is
\* the bucket's last: N pages make N requests.
C2_Pagination ==
    \A k \in 2..Len(requests) :
       /\ IF k = 2 \/ requests[k-1].asset_folder # requests[k].asset_folder
          THEN requests[k].next_cursor = Null
          ELSE /\ responses[k-1].ok
               /\ Truthy(CursorAt(k-1))
               /\ requests[k].next_cursor = CursorAt(k-1)
       /\ (k <= Len(responses) /\ responses[k].ok) =>
            IF Truthy(CursorAt(k))
            THEN \/ /\ Len(requests) > k
                    /\ requests[k+1].asset_folder = requests[k].asset_folder
                 \/ /\ k = Len(requests)
                    /\ pc = "exited"
                    /\ exitCode = 1
            ELSE \A j \in (k+1)..Len(requests) :
                    requests[j].asset_folder # requests[k].asset_folder

\* a folder was fetched in two pages and the run went on to the next bucket
C2_Witness ==
    \E k \in 3..Len(responses) :
       /\ requests[k].asset_folder # <<>>
       /\ requests[k-1].asset_folder = requests[k].asset_folder
       /\ requests[k].next_cursor = CursorAt(k-1)
       /\ responses[k].ok
       /\ ~Truthy(CursorAt(k))
       /\ Len(requests) > k

\* C3: the first call is the one folder listing; the searches then go
\* through the listed folders in listing order and the unfiled bucket last,
\* a bucket being left only after its page without cursor has arrived; a
\* call is issued only when no other is outstanding; a run that writes its
\* document has fetched the unfiled bucket exactly once.
C3_RequestOrder ==
    /\ Len(requests) - Len(responses) \in {0, 1}
    /\ pc = "exited" => Len(requests) = Len(responses)
    /\ \A k \in 1..Len(requests) : (requests[k].call = "root_folders") <=> (k = 1)
    /\ \A k \in 2..Len(requests) :
         /\ requests[k].asset_folder \in
               {folders[i].name : i \in 1..Len(folders)} \cup {<<>>}
         /\ IF k = 2
            THEN /\ responses[1].ok
                 /\ BucketPos(requests[k].asset_folder) = 1
            ELSE /\ responses[k-1].ok
                 /\ IF Truthy(CursorAt(k-1))
                    THEN BucketPos(requests[k].asset_folder)
                           = BucketPos(requests[k-1].asset_folder)
                    ELSE BucketPos(requests[k].asset_folder)
                           = BucketPos(requests[k-1].asset_folder) + 1
    /\ Written =>
         /\ requests[Len(requests)].asset_folder = <<>>
         /\ Cardinality({k \in 2..Len(requests) :
                            /\ requests[k].asset_folder = <<>>
                            /\ requests[k].next_cursor = Null}) = 1
    /\ (Len(responses) >= 1 /\ responses[1].ok /\ folders = <<>>) =>
         /\ Len(requests) >= 2
         /\ requests[2].asset_folder = <<>>

\* a run over two folders, one of them in two pages, has written its document
C3_Witness ==
    /\ Written
    /\ Len(folders) = 2
    /\ \E k \in 2..Len(requests) :
          /\ requests[k].asset_folder = folders[2].name
          /\ Truthy(requests[k].next_cursor)

\* C4: in the written document a listed folder that returned no asset has
\* no album, and a listed folder that returned assets has exactly one album,
\* whose folder is the folder's name and whose images are as many as the
\* assets returned over all pages of the folder.
C4_AlbumMaterialization ==
    Written =>
       \A i \in 1..Len(folders) :
          LET name == folders[i].name
              hits == {j \in 1..Len(Doc.albums) : Doc.albums[j].folder = name}
          IN IF Len(Returned(name)) = 0
             THEN hits = {}
             ELSE /\ Cardinality(hits) = 1
                  /\ \A j \in hits : Len(Doc.albums[j].images) = Len(Returned(name))

\* one folder returned nothing in two pages, the other returned one asset
C4_Witness ==
    /\ Written
    /\ Len(folders) = 2
    /\ Returned(folders[1].name) = <<>>
    /\ Cardinality({k \in 2..Len(requests) :
                       requests[k].asset_folder = folders[1].name}) = 2
    /\ Len(Returned(folders[2].name)) = 1
    /\ Len(Doc.albums) = 1

\* C5: in the written document totalImages is the length of carouselImages
\* and the sum of the albums' images plus the unfiled assets; the unfiled
\* items are the tail of carouselImages, and there are as many albums as
\* folders with assets, none of them for the unfiled bucket.
C5_UnfiledAndTotals ==
    Written =>
       LET root == Returned(<<>>)
           n    == Len(Doc.carouselImages)
       IN /\ Doc.totalImages = n
          /\ Doc.totalImages = SumImages(Doc.albums) + Len(root)
          /\ SubSeq(Doc.carouselImages, n - Len(root) + 1, n) = MapConvert(root)
          /\ \A j \in 1..Len(Doc.albums) : Doc.albums[j].folder # <<>>
          /\ Len(Doc.albums)
               = Cardinality({i \in 1..Len(folders) : Returned(folders[i].name) # <<>>})

\* a folder with 3 records, a folder with none and 1 unfiled record give
\* 1 album and 4 images
C5_Witness ==
    /\ Written
    /\ Len(folders) = 2
    /\ Len(Returned(folders[1].name)) = 3
    /\ Len(Returned(folders[2].name)) = 0
    /\ Len(Returned(<<>>)) = 1
    /\ Len(Doc.albums) = 1
    /\ Doc.totalImages = 4
    /\ Len(Doc.carouselImages) = 4

\* C6: the cover of an album is images[k] when albumCovers has an entry k
\* for its folder with 0 <= k < images.length, and images[0] otherwise.
C6_CoverSelection ==
    Written =>
       \A j \in 1..Len(Doc.albums) :
          LET a  == Doc.albums[j]
              ks == {albumCovers[i][2] : i \in {h \in 1..Len(albumCovers) :
                                                  albumCovers[h][1] = a.folder}}
          IN /\ Len(a.images) >= 1
             /\ \A k \in ks : (0 <= k /\ k < Len(a.images)) => a.coverImage = a.images[k + 1]
             /\ (\A k \in ks : ~(0 <= k /\ k < Len(a.images))) => a.coverImage = a.images[1]
             /\ \E i \in 1..Len(a.images) : a.coverImage = a.images[i]

\* an album whose override 1 picks its second image, which differs from its
\* first, and an album whose override 5 is out of bounds
C6_Witness ==
    /\ Written
    /\ \E j \in 1..Len(Doc.albums) :
          /\ coverIndex(Doc.albums[j].folder) = 1
          /\ Len(Doc.albums[j].images) = 3
          /\ Doc.albums[j].coverImage = Doc.albums[j].images[2]
          /\ Doc.albums[j].coverImage # Doc.albums[j].images[1]
    /\ \E j \in 1..Len(Doc.albums) :
          /\ coverIndex(Doc.albums[j].folder) = 5
          /\ Len(Doc.albums[j].images) = 4
          /\ Doc.albums[j].coverImage = Doc.albums[j].images[1]

\* the two titles differ first in a pair of digits
DigitsDecide(a, b) ==
    \E i \in 1..(IF Len(a) < Len(b) THEN Len(a) ELSE Len(b)) :
        /\ a[i] # b[i]
        /\ IsDigit(a[i]) /\ IsDigit(b[i])
        /\ \A k \in 1..(i-1) : a[k] = b[k]

\* C9 as stated: in the written document the albums are in descending order
\* of title by code units.
C9_OrdinalDescending ==
    Written =>
       \A j \in 1..(Len(Doc.albums) - 1) :
          OrdinalCompare(Doc.albums[j].title, Doc.albums[j+1].title) >= 0

\* C9 amended: in the written document the albums are in descending order
\* of title under localeCompare, and also by code units wherever two
\* neighbouring titles differ first in a digit.
C9_LocaleDescending ==
    Written =>
       \A j \in 1..(Len(Doc.albums) - 1) :
          /\ LocaleCompare(Doc.albums[j].title, Doc.albums[j+1].title) >= 0
          /\ DigitsDecide(Doc.albums[j].title, Doc.albums[j+1].title) =>
                OrdinalCompare(Doc.albums[j].title, Doc.albums[j+1].title) > 0

\* two albums listed in ascending order of title come out in descending order
C9_Witness ==
    /\ Written
    /\ Len(folders) = 2
    /\ Len(Doc.albums) = 2
    /\ LocaleCompare(formatFolderName(folders[1].name),
                     formatFolderName(folders[2].name)) < 0
    /\ Doc.albums[1].folder = folders[2].name
    /\ DigitsDecide(Doc.albums[1].title, Doc.albums[2].title)

\* C10: in the written document each album's images are the converted
\* records of the folder's pages, page after page in request order and each
\* page in the provider's order, and carouselImages is those sequences
\* folder after folder in listing order, followed by the unfiled records.
C10_OrderPreserved ==
    Written =>
       /\ \A j \in 1..Len(Doc.albums) :
             Doc.albums[j].images = MapConvert(Returned(Doc.albums[j].folder))
       /\ Doc.carouselImages
            = MapConvert(ReturnedUpTo(Len(folders)) \o Returned(<<>>))

\* an album of two pages that repeat a record, in a run with two albums
\* and an unfiled record
C10_Witness ==
    /\ Written
    /\ Len(Doc.albums) = 2
    /\ Doc.albums[1].folder = folders[2].name
    /\ Returned(<<>>) # <<>>
    /\ \E j \in 1..2 :
          /\ Len(Doc.albums[j].images) = 4
          /\ Doc.albums[j].images[1] = Doc.albums[j].images[3]
          /\ Doc.albums[j].images[1] # Doc.albums[j].images[2]


=============================================================================
